---- MODULE Spec2Model ----
(***************************************************************************)
(* chubaodb partition server: the per-node partition registry              *)
(* (src/pserver/service.rs), the index engine fed by the apply path        *)
(* (src/pserver/simba/engine/tantivy/mod.rs) and the Raft binding seen as  *)
(* an opaque committed log.                                                *)
(***************************************************************************)
EXTENDS Integers, Sequences, FiniteSets, TLC

\* ------------------------------------------------------------------ bounds
\* longest committed Raft log of one partition
MaxLog == 3
\* Simba::new calls (engine instances) over one run
MaxEngines == 2
\* Raft terms (leader elections) per partition over one run
MaxTerm == 2
\* flush() calls over one run
MaxFlush == 2
\* hits one partition returns for one search
MaxHits == 2
\* largest SearchDocumentRequest.size
MaxSize == 3

\* ------------------------------------------------------------- input sets
Nodes == {1, 2}
Parts == {1, 2}
Loaders == {1, 2}
Keys == {"a"}
\* a document source: "f" carries an indexed field, "null" has every
\* indexed field missing or null, "mistyped" has a value of another JSON
\* type than the field's (a number in a string field)
Sources == {"f", "null", "mistyped"}
WriteTypes == {"Create", "Put", "Update", "Upsert", "Delete"}
Engines == 1..MaxEngines
\* partition versions the master may hold
Versions == {0, 1, 2}

\* -------------------------------------------------------------- values
NoDoc == [id |-> "", source |-> ""]
NoCmd == [write_type |-> "None", doc |-> NoDoc]
Cmds == [write_type : WriteTypes, doc : [id : Keys, source : Sources]]
CommitEntry(c) == [type |-> "Commit", commond |-> c, leader |-> 0]
LeaderChangeEntry(l) == [type |-> "LeaderChange", commond |-> NoCmd, leader |-> l]

\* enum Store { Leader{partition, raft, simba}, Member{...} }; "None" is the
\* absent map entry; sid tells one Arc<Store> allocation from another
NoStore == [kind |-> "None", version |-> 0, raft |-> 0, simba |-> 0, sid |-> 0]
MkStore(k, v, r, s, id) == [kind |-> k, version |-> v, raft |-> r, simba |-> s, sid |-> id]

is_leader_type(store) == store.kind = "Leader"

leader_simba_any(store) == [ok |-> TRUE, simba |-> store.simba, raft |-> store.raft]
leader_simba(store) ==
    IF store.kind = "Leader"
    THEN [ok |-> TRUE, simba |-> store.simba, raft |-> store.raft]
    ELSE [ok |-> FALSE, simba |-> 0, raft |-> 0]

\* key-value store of one partition directory: D|iid -> doc, K|key -> iid,
\* M|max_iid, M|raft_index
EmptyDB == [docs |-> << >>, keys |-> [k \in Keys |-> 0], max_iid |-> 0, raft_index |-> 0]

Event(t, old, new) == [type |-> t, old_iid |-> old, iid |-> new]
NoEvent == Event("None", 0, 0)

VARIABLES
    simba_map,      \* PartitionService.simba_map, per node
    lock,           \* PartitionService.lock, per node: 0 free, else the holder
    next_sid,       \* Arc<Store> allocations so far
    simbas,         \* Simba objects: state, node, partition
    rafts,          \* Raft groups created by create_raft
    ld,             \* init_partition calls in flight
    off,            \* offload_partition call per node
    lc,             \* apply_leader_change call per node
    resp,           \* last response of write / get per node
    master_version, \* master's stored Partition.version
    search,         \* PartitionService::search call per node
    router,         \* the router's _search call
    heartbeat,      \* last put_pserver the master received, per node
    log,            \* committed Raft log per partition
    term,           \* Raft term per partition
    raft_leader,    \* Raft's leader per partition (0 none)
    ntf,            \* leader_change callbacks not yet delivered, per node
    db,             \* RocksDB contents per node and partition
    cidx,           \* committed tantivy index per node and partition
    flushed,        \* what an engine's last flush() did: commit or skip
    widx,           \* index writer's working set per engine
    evq,            \* index event channel per engine
    status,         \* Tantivy.status per engine
    wpc,            \* index_job position per engine
    flushes         \* flush() calls so far

vars == <<simba_map, lock, next_sid, simbas, rafts, ld, off, lc, resp,
          master_version, search, router, heartbeat, log, term, raft_leader, ntf, db, cidx, flushed,
          widx, evq, status, wpc, flushes>>

svc_vars == <<simba_map, lock, next_sid, simbas, rafts, ld, off, lc, resp,
              master_version, search, router, heartbeat>>
raft_vars == <<log, term, raft_leader, ntf>>
eng_vars == <<db, cidx, flushed, widx, evq, status, wpc, flushes>>

IdleLd == [pc |-> "idle", node |-> 0, part |-> 0, version |-> 0, collection |-> FALSE,
           simba |-> 0, raft |-> 0, pos |-> 0, res |-> "None"]
IdleOff == [pc |-> "idle", part |-> 0, store |-> NoStore, res |-> "None"]
IdleLc == [pc |-> "idle", part |-> 0, leader_id |-> 0, version |-> 0, store |-> NoStore,
           wps |-> {}, res |-> "None"]
\* a returned call: its locals are gone, its answer is kept
LcDone(p, code) == [IdleLc EXCEPT !.pc = "done", !.part = p, !.res = code]
NoResp == [op |-> "None", part |-> 0, code |-> "None", simba |-> 0, doc |-> ""]
\* SearchDocumentResponse: total and hits; a hit is the doc-th best document
\* of partition part with its score
NoSdr == [total |-> 0, hits |-> << >>]
\* Option<String> of Query.sort: a string is a sequence of fragments
NoSort == [some |-> FALSE, s |-> << >>]
IdleRouter == [pc |-> "idle", sort |-> NoSort, vq |-> "None", code |-> "None",
               dispatched |-> FALSE, orders |-> << >>]
IdleSearch == [pc |-> "idle", cpids |-> << >>, size |-> 0, i |-> 0, tasks |-> {},
               chan |-> << >>, got |-> 0, dist |-> NoSdr, code |-> "None"]
NoSimba == [state |-> "none", node |-> 0, part |-> 0]
NoRaft == [state |-> "none", node |-> 0, part |-> 0, sm |-> 0, version |-> 0, applied |-> 0]

\* ------------------------------------------------------- partition engine
\* Simba::do_write on the key-value store: the outcome of one committed
\* mutation, the new store contents and the index event it emits
OkCode(c) == c = "Success"

put_doc_reuse(kv, index, doc, prior) ==
    LET new == IF prior # 0 THEN prior ELSE kv.max_iid + 1
    IN [kv |-> [docs |-> [i \in (DOMAIN kv.docs) \cup {new} |->
                            IF i = new THEN doc.source ELSE kv.docs[i]],
                keys |-> [kv.keys EXCEPT ![doc.id] = new],
                max_iid |-> IF new > kv.max_iid THEN new ELSE kv.max_iid,
                raft_index |-> index],
        ev |-> Event("Update", prior, new),
        code |-> "Success"]

put_doc(kv, index, doc, prior) ==
    LET new == kv.max_iid + 1
    IN [kv |-> [docs |-> [i \in (DOMAIN kv.docs) \cup {new} |->
                            IF i = new THEN doc.source ELSE kv.docs[i]],
                keys |-> [kv.keys EXCEPT ![doc.id] = new],
                max_iid |-> new,
                raft_index |-> index],
        ev |-> Event("Update", prior, new),
        code |-> "Success"]

delete_doc_always_event(kv, index, doc, prior) ==
    [kv |-> [docs |-> [i \in (DOMAIN kv.docs) \ {prior} |-> kv.docs[i]],
             keys |-> [kv.keys EXCEPT ![doc.id] = 0],
             max_iid |-> kv.max_iid,
             raft_index |-> index],
     ev |-> Event("Delete", prior, 0),
     code |-> "Success"]

delete_doc(kv, index, doc, prior) ==
    [kv |-> [docs |-> [i \in (DOMAIN kv.docs) \ {prior} |-> kv.docs[i]],
             keys |-> [kv.keys EXCEPT ![doc.id] = 0],
             max_iid |-> kv.max_iid,
             raft_index |-> index],
     ev |-> IF prior = 0 THEN NoEvent ELSE Event("Delete", prior, 0),
     code |-> "Success"]

reject_keep_index(kv, index, c) == [kv |-> kv, ev |-> NoEvent, code |-> c]

reject(kv, index, c) ==
    [kv |-> [kv EXCEPT !.raft_index = index], ev |-> NoEvent, code |-> c]

do_write_create_over(kv, index, cmd) ==
    LET prior == kv.keys[cmd.doc.id]
        wt == cmd.write_type
    IN CASE wt = "Update" -> IF prior = 0 THEN reject(kv, index, "NotFound")
                             ELSE put_doc(kv, index, cmd.doc, prior)
         [] wt = "Delete" -> delete_doc(kv, index, cmd.doc, prior)
         [] OTHER -> put_doc(kv, index, cmd.doc, prior)
do_write(kv, index, cmd) ==
    LET prior == kv.keys[cmd.doc.id]
        wt == cmd.write_type
    IN CASE wt = "Create" -> IF prior # 0 THEN reject(kv, index, "AlreadyExists")
                             ELSE put_doc(kv, index, cmd.doc, prior)
         [] wt = "Update" -> IF prior = 0 THEN reject(kv, index, "NotFound")
                             ELSE put_doc(kv, index, cmd.doc, prior)
         [] wt = "Delete" -> delete_doc(kv, index, cmd.doc, prior)
         [] OTHER -> put_doc(kv, index, cmd.doc, prior)

\* Tantivy::write: send on the event channel
send(q, ev) == IF ev.type = "None" THEN q ELSE Append(q, ev)

\* index_job has returned or unwound: the receiver is dropped and a send on
\* the channel fails
WorkerGone(e) == wpc[e] \in {"stopped", "panicked"}

\* do_write of engine e, on node n's directory of partition p
EngineApply(e, n, p, index, cmd) ==
    LET r == do_write(db[n][p], index, cmd)
    IN /\ db' = [db EXCEPT ![n][p] = r.kv]
       /\ evq' = [evq EXCEPT ![e] = IF WorkerGone(e) THEN @ ELSE send(@, r.ev)]

\* the store contents after the first k entries of a committed log
RECURSIVE KVAfter(_, _)
KVAfter(l, k) ==
    IF k = 0 THEN EmptyDB
    ELSE IF l[k].type = "Commit" THEN do_write(KVAfter(l, k - 1), k, l[k].commond).kv
         ELSE KVAfter(l, k - 1)

\* a node process starts: nothing is loaded; partition 1's Raft store holds
\* the committed log l, and node 1's key-value store its first k entries
Boot(l, k, mv) ==
    /\ simba_map = [n \in Nodes |-> [p \in Parts |-> NoStore]]
    /\ lock = [n \in Nodes |-> 0]
    /\ next_sid = 1
    /\ simbas = [e \in Engines |-> NoSimba]
    /\ rafts = [e \in Engines |-> NoRaft]
    /\ ld = [t \in Loaders |-> IdleLd]
    /\ off = [n \in Nodes |-> IdleOff]
    /\ lc = [n \in Nodes |-> IdleLc]
    /\ resp = [n \in Nodes |-> NoResp]
    /\ master_version = [p \in Parts |-> IF p = 1 THEN mv ELSE 0]
    /\ search = [n \in Nodes |-> IdleSearch]
    /\ router = IdleRouter
    /\ heartbeat = [n \in Nodes |-> {}]
    /\ log = [p \in Parts |-> IF p = 1 THEN l ELSE << >>]
    /\ term = [p \in Parts |-> 0]
    /\ raft_leader = [p \in Parts |-> 0]
    /\ ntf = [n \in Nodes |-> [p \in Parts |-> << >>]]
    /\ db = [n \in Nodes |-> [p \in Parts |->
                IF n = 1 /\ p = 1 THEN KVAfter(l, k) ELSE EmptyDB]]
    /\ cidx = [n \in Nodes |-> [p \in Parts |-> {}]]
    /\ flushed = [e \in Engines |-> "none"]
    /\ widx = [e \in Engines |-> {}]
    /\ evq = [e \in Engines |-> << >>]
    /\ status = [e \in Engines |-> 0]
    /\ wpc = [e \in Engines |-> "none"]
    /\ flushes = 0

\* ------------------------------------------------------------ init_partition
\* a write guard that offload_partition gives back as soon as remove() returns
map_write_dropped(n) == FALSE

\* offload_partition's `if let Some(store) = self.simba_map.write().unwrap()
\* .remove(..) { .. }`: the RwLockWriteGuard is a temporary of the scrutinee and
\* lives to the end of the if let, so the registry is write-locked from the
\* removal until release() has returned; every read() and write() of the
\* registry blocks meanwhile
map_write_held(n) == off[n].pc \in {"stop", "wait"}

contains_key_never(n, p) == FALSE
contains_key(n, p) == simba_map[n][p].kind # "None"

FreshEngines == {e \in Engines : simbas[e].state = "none"}
FreshEngine == CHOOSE e \in FreshEngines : \A f \in FreshEngines : e <= f

Finish(t, code) == ld' = [ld EXCEPT ![t].pc = "done", ![t].res = code]

\* an RPC handler enters init_partition (load RPC, or init's loop)
init_partition(t, n, p, v) ==
    /\ ld[t].pc \in {"idle", "done"}
    /\ ld' = [ld EXCEPT ![t] = [IdleLd EXCEPT !.pc = "check", !.node = n, !.part = p,
                                             !.version = v]]
    /\ UNCHANGED <<simba_map, lock, next_sid, simbas, rafts, off, lc, resp,
                   master_version, search, router, heartbeat, raft_vars, eng_vars>>

\* `let _ = self.lock.lock().unwrap();` takes the mutex and drops the guard in
\* the same statement; then the already-present check
InitCheck(t) ==
    /\ ld[t].pc = "check"
    /\ lock[ld[t].node] = 0
    /\ ~map_write_held(ld[t].node)
    /\ lock' = lock
    /\ IF contains_key(ld[t].node, ld[t].part)
       THEN Finish(t, "Success")
       ELSE ld' = [ld EXCEPT ![t].pc = "get_collection"]
    /\ UNCHANGED <<simba_map, next_sid, simbas, rafts, off, lc, resp,
                   master_version, search, router, heartbeat, raft_vars, eng_vars>>

\* meta_client.get_collection_by_id(collection_id).await?
InitGetCollection(t) ==
    /\ ld[t].pc = "get_collection"
    /\ \E ok \in BOOLEAN :
         IF ok
         THEN ld' = [ld EXCEPT ![t].collection = TRUE,
                               ![t].pc = IF ld[t].version > 0 THEN "check_version"
                                         ELSE "new_simba"]
         ELSE Finish(t, "InternalErr")
    /\ UNCHANGED <<simba_map, lock, next_sid, simbas, rafts, off, lc, resp,
                   master_version, search, router, heartbeat, raft_vars, eng_vars>>

check_partition_version_ge(found, version) ==
    IF found >= version THEN "VersionErr" ELSE "Success"
check_partition_version(found, version) ==
    IF found > version THEN "VersionErr" ELSE "Success"

\* if version > 0 { self.check_partition_version(..).await?; }
InitCheckVersion(t) ==
    /\ ld[t].pc = "check_version"
    /\ \E ok \in BOOLEAN :
         IF ok
         THEN LET c == check_partition_version(master_version[ld[t].part], ld[t].version)
              IN IF OkCode(c) THEN ld' = [ld EXCEPT ![t].pc = "new_simba"]
                 ELSE Finish(t, c)
         ELSE Finish(t, "InternalErr")
    /\ UNCHANGED <<simba_map, lock, next_sid, simbas, rafts, off, lc, resp,
                   master_version, search, router, heartbeat, raft_vars, eng_vars>>

\* the key-value store and the index writer lock their directory: a second
\* open fails while an engine that has not been released holds it
DirectoryHeld(n, p) ==
    \E e \in Engines : /\ simbas[e].node = n /\ simbas[e].part = p
                        /\ simbas[e].state \in {"running", "stopped"}

\* Simba::new(conf, collection, partition)?: opens the key-value store and the
\* index of the partition directory and starts index_job
InitNewSimba(t) ==
    /\ ld[t].pc = "new_simba"
    /\ \E ok \in BOOLEAN :
         IF ok /\ ~DirectoryHeld(ld[t].node, ld[t].part)
         THEN /\ FreshEngines # {}
              /\ LET e == FreshEngine
                 IN /\ simbas' = [simbas EXCEPT ![e] = [state |-> "running",
                                       node |-> ld[t].node, part |-> ld[t].part]]
                    /\ widx' = [widx EXCEPT ![e] = cidx[ld[t].node][ld[t].part]]
                    /\ evq' = [evq EXCEPT ![e] = << >>]
                    /\ status' = [status EXCEPT ![e] = 0]
                    /\ wpc' = [wpc EXCEPT ![e] = "recv"]
                    /\ ld' = [ld EXCEPT ![t].simba = e, ![t].pc = "create_raft"]
         ELSE /\ Finish(t, "InternalErr")
              /\ UNCHANGED <<simbas, widx, evq, status, wpc>>
    /\ UNCHANGED <<simba_map, lock, next_sid, rafts, off, lc, resp,
                   master_version, search, router, heartbeat, raft_vars, db, cidx, flushed, flushes>>

InitCreateRaft_early(t) ==
    /\ ld[t].pc = "create_raft"
    /\ rafts' = [rafts EXCEPT ![ld[t].simba] =
                    [state |-> "open", node |-> ld[t].node, part |-> ld[t].part,
                     sm |-> ld[t].simba, version |-> ld[t].version + 1,
                     applied |-> Len(log[ld[t].part])]]
    /\ ld' = [ld EXCEPT ![t].raft = ld[t].simba, ![t].pc = "iter"]
    /\ simba_map' = [simba_map EXCEPT ![ld[t].node][ld[t].part] =
                        MkStore("Member", ld[t].version + 1, ld[t].simba, ld[t].simba,
                                next_sid)]
    /\ UNCHANGED <<lock, next_sid, simbas, off, lc, resp,
                   master_version, search, router, heartbeat, raft_vars, eng_vars>>

\* raft_server.create_raft(id, 0, replicas[0], &replicas, NodeStateMachine).await
InitCreateRaft(t) ==
    /\ ld[t].pc = "create_raft"
    /\ \E ok \in BOOLEAN :
         IF ok
         THEN LET e == ld[t].simba
              IN /\ rafts' = [r \in Engines |->
                                IF r = e
                                THEN [state |-> "open", node |-> ld[t].node,
                                      part |-> ld[t].part, sm |-> e,
                                      version |-> ld[t].version + 1,
                                      applied |-> Len(log[ld[t].part])]
                                ELSE IF /\ rafts[r].state = "open"
                                        /\ rafts[r].node = ld[t].node
                                        /\ rafts[r].part = ld[t].part
                                     THEN [rafts[r] EXCEPT !.state = "replaced"]
                                     ELSE rafts[r]]
                 /\ ld' = [ld EXCEPT ![t].raft = e, ![t].pc = "iter"]
         ELSE /\ Finish(t, "InternalErr")
              /\ UNCHANGED rafts
    /\ simbas' = IF ld'[t].pc = "done"
                 THEN [simbas EXCEPT ![ld[t].simba].state = "dropped"] ELSE simbas
    /\ UNCHANGED <<simba_map, lock, next_sid, off, lc, resp,
                   master_version, search, router, heartbeat, raft_vars, eng_vars>>

\* init_simba_by_raft: index = get_raft_index() + 1; raft.store.iter(index)
replay_from(raft_index) == raft_index + 1

InitIter(t) ==
    /\ ld[t].pc = "iter"
    /\ \E ok \in BOOLEAN :
         IF ok
         THEN ld' = [ld EXCEPT ![t].pos = replay_from(db[ld[t].node][ld[t].part].raft_index),
                               ![t].pc = "replay"]
         ELSE Finish(t, "InternalErr")
    /\ simbas' = IF ld'[t].pc = "done"
                 THEN [simbas EXCEPT ![ld[t].simba].state = "dropped"] ELSE simbas
    /\ UNCHANGED <<simba_map, lock, next_sid, rafts, off, lc, resp,
                   master_version, search, router, heartbeat, raft_vars, eng_vars>>

\* one turn of `while let Some(body) = iter.next(..)`: a Commit entry goes to
\* do_write, LeaderChange and MemberChange are passed over, None ends the loop
InitReplay(t) ==
    /\ ld[t].pc = "replay"
    /\ LET n == ld[t].node
           p == ld[t].part
           i == ld[t].pos
       IN IF i > Len(log[p])
          THEN /\ ld' = [ld EXCEPT ![t].pc = "insert"]
               /\ UNCHANGED <<db, evq>>
          ELSE /\ ld' = [ld EXCEPT ![t].pos = i + 1]
               /\ IF log[p][i].type = "Commit" /\ simbas[ld[t].simba].state = "running"
                  THEN EngineApply(ld[t].simba, n, p, i, log[p][i].commond)
                  ELSE UNCHANGED <<db, evq>>
    /\ UNCHANGED <<simba_map, lock, next_sid, simbas, rafts, off, lc, resp,
                   master_version, search, router, heartbeat, raft_vars, cidx, flushed, widx, status, wpc,
                   flushes>>

\* simba_map.write().insert((cid, pid), Arc::new(Store::Member{..})); Ok(())
member_store_leader(t) == MkStore("Leader", ld[t].version + 1, ld[t].raft, ld[t].simba, next_sid)
member_store(t) == MkStore("Member", ld[t].version + 1, ld[t].raft, ld[t].simba, next_sid)

InitInsert(t) ==
    /\ ld[t].pc = "insert"
    /\ ~map_write_held(ld[t].node)
    /\ simba_map' = [simba_map EXCEPT ![ld[t].node][ld[t].part] = member_store(t)]
    /\ next_sid' = next_sid + 1
    /\ Finish(t, "Success")
    /\ UNCHANGED <<lock, simbas, rafts, off, lc, resp,
                   master_version, search, router, heartbeat, raft_vars, eng_vars>>


\* ---------------------------------------------------------------- index engine
\* fn flush: `if self.status.fetch_add(1, SeqCst) > 10 { return Ok(()) }`,
\* else index_writer.commit()
FlushLimit == 10

flush_commits(st) == ~(st > FlushLimit)

\* Engine::flush of engine e on node n's directory of partition p
EngineFlush(e, n, p) ==
    /\ status' = [status EXCEPT ![e] = @ + 1]
    /\ cidx' = [cidx EXCEPT ![n][p] = IF flush_commits(status[e]) THEN widx[e] ELSE @]
    /\ flushed' = [flushed EXCEPT ![e] = IF flush_commits(status[e]) THEN "commit" ELSE "skip"]

\* -------------------------------------------------------- offload_partition
\* Arc::strong_count(&store): the caller's own reference, the map's while the
\* entry is this allocation, and one per apply_leader_change holding a clone
Holders(n, store) ==
    {m \in Nodes : m = n /\ lc[m].pc \in {"swap", "snapshot", "send"}
                         /\ lc[m].store.sid = store.sid}
strong_count(n, store) ==
    1 + Cardinality(Holders(n, store))
      + Cardinality({p \in Parts : simba_map[n][p].sid = store.sid})

OffRemove_strict(n, p) ==
    /\ off[n].pc \in {"idle", "done"}
    /\ IF contains_key(n, p)
       THEN /\ simba_map' = [simba_map EXCEPT ![n][p] = NoStore]
            /\ off' = [off EXCEPT ![n] = [pc |-> "stop", part |-> p,
                                          store |-> simba_map[n][p], res |-> "None"]]
       ELSE /\ off' = [off EXCEPT ![n] = [pc |-> "done", part |-> p,
                                          store |-> NoStore, res |-> "RocksDBNotFound"]]
            /\ UNCHANGED simba_map
    /\ UNCHANGED <<lock, next_sid, simbas, rafts, ld, lc, resp,
                   master_version, search, router, heartbeat, raft_vars, eng_vars>>

\* simba_map.write().remove(&(cid, pid)); an absent entry goes straight to
\* make_general_success()
OffRemove(n, p) ==
    /\ off[n].pc \in {"idle", "done"}
    /\ IF contains_key(n, p)
       THEN /\ simba_map' = [simba_map EXCEPT ![n][p] = NoStore]
            /\ off' = [off EXCEPT ![n] = [pc |-> "stop", part |-> p,
                                          store |-> simba_map[n][p], res |-> "None"]]
       ELSE /\ off' = [off EXCEPT ![n] = [pc |-> "done", part |-> p,
                                          store |-> NoStore, res |-> "Success"]]
            /\ UNCHANGED simba_map
    /\ UNCHANGED <<lock, next_sid, simbas, rafts, ld, lc, resp,
                   master_version, search, router, heartbeat, raft_vars, eng_vars>>

\* store.simba()?.stop(): the engine leaves Running and Stop goes to index_job
OffStop(n) ==
    /\ off[n].pc = "stop"
    /\ LET e == off[n].store.simba
       IN /\ simbas' = [simbas EXCEPT ![e].state = "stopped"]
          /\ evq' = [evq EXCEPT ![e] = Append(@, Event("Stop", 0, 0))]
    /\ off' = [off EXCEPT ![n].pc = "wait"]
    /\ UNCHANGED <<simba_map, lock, next_sid, rafts, ld, lc, resp,
                   master_version, search, router, heartbeat, raft_vars, db, cidx, flushed, widx, status, wpc,
                   flushes>>

\* the loop `while Arc::strong_count(&store) > 1 { sleep }` is left, then
\* store.simba()?.release() (Engine::release: flush) and make_general_success
OffRelease(n) ==
    /\ off[n].pc = "wait"
    /\ ~(strong_count(n, off[n].store) > 1)
    /\ LET e == off[n].store.simba
       IN /\ EngineFlush(e, n, off[n].part)
          /\ simbas' = [simbas EXCEPT ![e].state = "released"]
    /\ off' = [off EXCEPT ![n] = [pc |-> "done", part |-> off[n].part,
                                  store |-> NoStore, res |-> "Success"]]
    /\ UNCHANGED <<simba_map, lock, next_sid, rafts, ld, lc, resp,
                   master_version, search, router, heartbeat, raft_vars, db, widx, evq, wpc, flushes>>

\* ------------------------------------------------------ apply_leader_change
OpenRafts(n, p) ==
    {r \in Engines : rafts[r].state = "open" /\ rafts[r].node = n /\ rafts[r].part = p}

\* NodeStateMachine's leader_change callback enters apply_leader_change with
\* the partition it was created with; the map is read under the read lock
LcRead(n, p) ==
    /\ lc[n].pc \in {"idle", "done"}
    /\ ~map_write_held(n)
    /\ ntf[n][p] # << >>
    /\ \E r \in OpenRafts(n, p) :
         lc' = [lc EXCEPT ![n] =
                  IF contains_key(n, p)
                  THEN [pc |-> "swap", part |-> p, leader_id |-> Head(ntf[n][p]),
                        version |-> rafts[r].version, store |-> simba_map[n][p],
                        wps |-> {}, res |-> "None"]
                  ELSE LcDone(p, "InternalErr")]
    /\ ntf' = [ntf EXCEPT ![n][p] = Tail(@)]
    /\ UNCHANGED <<simba_map, lock, next_sid, simbas, rafts, ld, off, resp,
                   master_version, search, router, heartbeat, log, term, raft_leader, eng_vars>>

\* the Store apply_leader_change puts in the map, NoStore when it returns early
swap_always(server_id, leader_id, store, version, sid) ==
    IF server_id = leader_id
    THEN MkStore("Leader", store.version, store.raft, store.simba, sid)
    ELSE MkStore("Member", version, store.raft, store.simba, sid)
swap_no_demote(server_id, leader_id, store, version, sid) ==
    IF server_id = leader_id
    THEN IF is_leader_type(store) THEN NoStore
         ELSE MkStore("Leader", store.version, store.raft, store.simba, sid)
    ELSE NoStore
swap(server_id, leader_id, store, version, sid) ==
    IF server_id = leader_id
    THEN IF is_leader_type(store) THEN NoStore
         ELSE MkStore("Leader", store.version, store.raft, store.simba, sid)
    ELSE IF ~is_leader_type(store) THEN NoStore
         ELSE MkStore("Member", version, store.raft, store.simba, sid)

LcSwap(n) ==
    /\ lc[n].pc = "swap"
    /\ LET s == swap(n, lc[n].leader_id, lc[n].store, lc[n].version, next_sid)
       IN IF s = NoStore
          THEN /\ lc' = [lc EXCEPT ![n] = LcDone(lc[n].part, "Success")]
               /\ UNCHANGED <<simba_map, next_sid>>
          ELSE /\ ~map_write_held(n)
               /\ simba_map' = [simba_map EXCEPT ![n][lc[n].part] = s]
               /\ next_sid' = next_sid + 1
               /\ lc' = [lc EXCEPT ![n].pc = "snapshot"]
    /\ UNCHANGED <<lock, simbas, rafts, ld, off, resp,
                   master_version, search, router, heartbeat, raft_vars, eng_vars>>

\* take_heartbeat: `let _ = self.lock.lock().unwrap();` then the leader-typed
\* partitions of the map are collected
write_partitions_hosted(n) == {p \in Parts : contains_key(n, p)}
write_partitions(n) == {p \in Parts : is_leader_type(simba_map[n][p])}

LcSnapshot(n) ==
    /\ lc[n].pc = "snapshot"
    /\ lock[n] = 0
    /\ ~map_write_held(n)
    /\ lock' = lock
    /\ lc' = [lc EXCEPT ![n].wps = write_partitions(n), ![n].pc = "send"]
    /\ UNCHANGED <<simba_map, next_sid, simbas, rafts, ld, off, resp,
                   master_version, search, router, heartbeat, raft_vars, eng_vars>>

\* meta_client.put_pserver(..).await
LcSend(n) ==
    /\ lc[n].pc = "send"
    /\ \E ok \in BOOLEAN :
         IF ok
         THEN /\ heartbeat' = [heartbeat EXCEPT ![n] = lc[n].wps]
              /\ lc' = [lc EXCEPT ![n] = LcDone(lc[n].part, "Success")]
         ELSE /\ lc' = [lc EXCEPT ![n] = LcDone(lc[n].part, "InternalErr")]
              /\ UNCHANGED heartbeat
    /\ UNCHANGED <<simba_map, lock, next_sid, simbas, rafts, ld, off, resp,
                   master_version, search, router, raft_vars, eng_vars>>


\* ------------------------------------------------------------- index_job
\* the schema holds _iid, _iid_bytes and one field per scalar_field_index
\* entry: partition 1's collection indexes one field, partition 2's none
field_num(p) == IF p = 1 THEN 3 ELSE 2
check_index(p) == ~(field_num(p) <= 2)

\* fn _delete: delete_term(_iid = iid)
_delete(p, ix, iid) == IF check_index(p) THEN ix \ {iid} ELSE ix

\* fn _create: the old iid's postings go if old_iid > 0, the new document is
\* added if one indexed field at least is present in the source
_create(p, ix, old_iid, iid, source) ==
    IF ~check_index(p) THEN ix
    ELSE ((IF old_iid > 0 THEN ix \ {old_iid} ELSE ix)
          \cup (IF source = "f" THEN {iid} ELSE {}))

\* fn _create: `v.as_str().unwrap()`, `v.as_i64().unwrap()`, `v.as_f64().unwrap()`
\* and `v.as_array().unwrap()` panic on a value of another JSON type
unwrap_panics(p, source) == check_index(p) /\ source = "mistyped"

\* the event makes index_job call _create on a source it panics on
index_panics(p, kv, ev) ==
    /\ ev.type = "Update" /\ ev.iid # 0
    /\ ev.iid \in DOMAIN kv.docs
    /\ unwrap_panics(p, kv.docs[ev.iid])

\* the body of index_job's loop for one event, up to the status store
index_event(p, ix, kv, ev) ==
    LET old_iid == IF ev.type = "Delete" THEN ev.old_iid ELSE ev.old_iid
        iid == IF ev.type = "Delete" THEN 0 ELSE ev.iid
    IN IF iid = 0
       THEN IF old_iid > 0 THEN _delete(p, ix, old_iid) ELSE ix
       ELSE IF iid \in DOMAIN kv.docs
            THEN _create(p, ix, old_iid, iid, kv.docs[iid])
            ELSE ix

\* a loop that has no arm for Stop and handles it as an event without iids
stop_never(ev) == FALSE

\* the match arm `Event::Stop => return`
stop_loop(ev) == ev.type = "Stop"

\* rx.recv() and the handling of the event received
WorkerHandle(e) ==
    /\ wpc[e] = "recv"
    /\ evq[e] # << >>
    /\ evq' = [evq EXCEPT ![e] = Tail(@)]
    /\ LET ev == Head(evq[e])
           n == simbas[e].node
           p == simbas[e].part
       IN IF stop_loop(ev)
          THEN /\ wpc' = [wpc EXCEPT ![e] = "stopped"]
               /\ UNCHANGED widx
          ELSE IF index_panics(p, db[n][p], ev)
          THEN /\ wpc' = [wpc EXCEPT ![e] = "panicked"]
               /\ UNCHANGED widx
          ELSE /\ wpc' = [wpc EXCEPT ![e] = "store"]
               /\ widx' = [widx EXCEPT ![e] = index_event(p, @, db[n][p], ev)]
    /\ UNCHANGED <<svc_vars, raft_vars, db, cidx, flushed, status, flushes>>

\* index.status.store(0, SeqCst)
WorkerStore(e) ==
    /\ wpc[e] = "store"
    /\ status' = [status EXCEPT ![e] = 0]
    /\ wpc' = [wpc EXCEPT ![e] = "recv"]
    /\ UNCHANGED <<svc_vars, raft_vars, db, cidx, flushed, widx, evq, flushes>>

\* the engine's periodic flush(), at most max times
FlushUpTo(e, max) ==
    /\ simbas[e].state = "running"
    /\ flushes < max
    /\ flushes' = flushes + 1
    /\ EngineFlush(e, simbas[e].node, simbas[e].part)
    /\ UNCHANGED <<svc_vars, raft_vars, db, widx, evq, wpc>>
Flush(e) == FlushUpTo(e, MaxFlush)

\* ------------------------------------------------------------------- Raft
\* an election: the term's leader is recorded in the log and every replica's
\* state machine will be called with leader_change(leader_id)
Elect(p, m) ==
    /\ term[p] < MaxTerm
    /\ Len(log[p]) < MaxLog
    /\ m # raft_leader[p]
    /\ term' = [term EXCEPT ![p] = @ + 1]
    /\ raft_leader' = [raft_leader EXCEPT ![p] = m]
    /\ log' = [log EXCEPT ![p] = Append(@, LeaderChangeEntry(m))]
    /\ ntf' = [n \in Nodes |-> [ntf[n] EXCEPT ![p] = Append(@, m)]]
    /\ UNCHANGED <<svc_vars, eng_vars>>

\* the group's leader replica commits a mutation some client wrote to it
Propose(p, cmd) ==
    /\ Len(log[p]) < MaxLog
    /\ log' = [log EXCEPT ![p] = Append(@, CommitEntry(cmd))]
    /\ UNCHANGED <<svc_vars, term, raft_leader, ntf, eng_vars>>

\* the state machine of group r is handed the next committed entry
RaftApply(r) ==
    /\ rafts[r].state = "open"
    /\ rafts[r].applied < Len(log[rafts[r].part])
    /\ LET p == rafts[r].part
           i == rafts[r].applied + 1
       IN /\ rafts' = [rafts EXCEPT ![r].applied = i]
          /\ IF log[p][i].type = "Commit" /\ simbas[rafts[r].sm].state = "running"
             THEN EngineApply(rafts[r].sm, rafts[r].node, p, i, log[p][i].commond)
             ELSE UNCHANGED <<db, evq>>
    /\ UNCHANGED <<simba_map, lock, next_sid, simbas, ld, off, lc, resp,
                   master_version, search, router, heartbeat, raft_vars, cidx, flushed, widx, status, wpc,
                   flushes>>

\* ------------------------------------------------------------ write and get
NotFoundCode == "RocksDBNotFound"

\* PartitionService::write: the map lookup, leader_simba()? and simba.write,
\* which proposes the mutation and returns the outcome of its apply
Write(n, p, cmd) ==
    LET store == simba_map[n][p]
        ls == leader_simba(store)
        i == Len(log[p]) + 1
    IN IF ~contains_key(n, p)
       THEN /\ resp' = [resp EXCEPT ![n] = [op |-> "write", part |-> p,
                            code |-> NotFoundCode, simba |-> 0, doc |-> ""]]
            /\ UNCHANGED <<rafts, log, db, evq>>
       ELSE IF ~ls.ok
       THEN /\ resp' = [resp EXCEPT ![n] = [op |-> "write", part |-> p,
                            code |-> "PartitionNotLeader", simba |-> 0, doc |-> ""]]
            /\ UNCHANGED <<rafts, log, db, evq>>
       ELSE IF simbas[ls.simba].state # "running"
       THEN /\ resp' = [resp EXCEPT ![n] = [op |-> "write", part |-> p,
                            code |-> "EngineStopped", simba |-> ls.simba, doc |-> ""]]
            /\ UNCHANGED <<rafts, log, db, evq>>
       ELSE IF raft_leader[p] # n \/ rafts[ls.raft].state # "open"
       THEN /\ resp' = [resp EXCEPT ![n] = [op |-> "write", part |-> p,
                            code |-> "InternalErr", simba |-> ls.simba, doc |-> ""]]
            /\ UNCHANGED <<rafts, log, db, evq>>
       ELSE /\ i <= MaxLog
            /\ rafts[ls.raft].applied = Len(log[p])
            /\ log' = [log EXCEPT ![p] = Append(@, CommitEntry(cmd))]
            /\ rafts' = [rafts EXCEPT ![ls.raft].applied = i]
            /\ EngineApply(ls.simba, n, p, i, cmd)
            /\ resp' = [resp EXCEPT ![n] = [op |-> "write", part |-> p,
                            code |-> do_write(db[n][p], i, cmd).code,
                            simba |-> ls.simba, doc |-> ""]]

write(n, p, cmd) ==
    /\ ~map_write_held(n)
    /\ Write(n, p, cmd)
    /\ UNCHANGED <<simba_map, lock, next_sid, simbas, ld, off, lc,
                   master_version, search, router, heartbeat, term, raft_leader, ntf, cidx, flushed, widx,
                   status, wpc, flushes>>

\* PartitionService::get: the map lookup, then simba.get(id, sort_key)
get(n, p, id) ==
    /\ ~map_write_held(n)
    /\ resp' = [resp EXCEPT ![n] =
         IF ~contains_key(n, p)
         THEN [op |-> "get", part |-> p, code |-> NotFoundCode, simba |-> 0, doc |-> ""]
         ELSE LET e == simba_map[n][p].simba
                  iid == db[n][p].keys[id]
              IN IF simbas[e].state # "running"
                 THEN [op |-> "get", part |-> p, code |-> "EngineStopped",
                       simba |-> e, doc |-> ""]
                 ELSE IF iid = 0 \/ iid \notin DOMAIN db[n][p].docs
                 THEN [op |-> "get", part |-> p, code |-> NotFoundCode,
                       simba |-> e, doc |-> ""]
                 ELSE [op |-> "get", part |-> p, code |-> "Success",
                       simba |-> e, doc |-> db[n][p].docs[iid]]]
    /\ UNCHANGED <<simba_map, lock, next_sid, simbas, rafts, ld, off, lc,
                   master_version, search, router, heartbeat, raft_vars, eng_vars>>


\* ------------------------------------------------------------------ search
\* scores 0.5, 0.7, 0.8, 0.9 in tenths
Scores == {5, 7, 8, 9}

\* what one partition's simba.search(sdreq) may answer: at most size hits,
\* best first, and the number of documents that matched, which exceeds the
\* hits only if size cut them
ScoreSeqs(size) ==
    {sc \in UNION {[1..k -> Scores] : k \in 0..MaxHits} :
        /\ Len(sc) <= size
        /\ \A j \in 1..(Len(sc) - 1) : sc[j] >= sc[j + 1]}
PartialTotals(sc, size) == IF Len(sc) = size THEN {Len(sc), Len(sc) + 1} ELSE {Len(sc)}
PartialResponses(p, size) ==
    UNION {{[total |-> tot,
             hits |-> [j \in 1..Len(sc) |-> [part |-> p, doc |-> j, score |-> sc[j]]]] :
               tot \in PartialTotals(sc, size)} : sc \in ScoreSeqs(size)}

\* merge_search_document_response(dist, src): totals summed, hits concatenated
merge_keep_total(dist, src) ==
    [total |-> dist.total, hits |-> dist.hits \o src.hits]
merge_search_document_response(dist, src) ==
    [total |-> dist.total + src.total, hits |-> dist.hits \o src.hits]

\* the closure given to sort_by: Less when v1.score >= v2.score, else Greater
compare_asc(v1, v2) == IF v1.score <= v2.score THEN "Less" ELSE "Greater"
compare(v1, v2) == IF v1.score >= v2.score THEN "Less" ELSE "Greater"

\* slice::sort_by on a short slice: each element in turn moves left past the
\* elements it compares Less than
RECURSIVE insert_tail(_, _)
insert_tail(sorted, v) ==
    IF sorted = << >> THEN <<v>>
    ELSE IF compare(v, sorted[Len(sorted)]) = "Less"
         THEN Append(insert_tail(SubSeq(sorted, 1, Len(sorted) - 1), v),
                     sorted[Len(sorted)])
         ELSE Append(sorted, v)
RECURSIVE sort_by(_)
sort_by(hits) ==
    IF hits = << >> THEN << >>
    ELSE insert_tail(sort_by(SubSeq(hits, 1, Len(hits) - 1)), hits[Len(hits)])

\* if dist.hits.len() > size { set_len(size) }
set_len(hits, size) == IF Len(hits) > size THEN SubSeq(hits, 1, size) ELSE hits

\* PartitionService::search is entered (cpids is not empty)
search_call(n, cpids, size) ==
    /\ search[n].pc \in {"idle", "done"}
    /\ search[n].tasks = {}
    /\ Len(cpids) # 0
    /\ search' = [search EXCEPT ![n] = [IdleSearch EXCEPT !.pc = "dispatch",
                                           !.cpids = cpids, !.size = size, !.i = 1]]
    /\ UNCHANGED <<simba_map, lock, next_sid, simbas, rafts, ld, off, lc, resp,
                   master_version, router, heartbeat, raft_vars, eng_vars>>

\* one turn of the loop over cpids: the map is read; a hosted partition gets
\* a task spawned, an absent one ends the call with make_not_found_err
SearchDispatch_skip(n) ==
    /\ search[n].pc = "dispatch"
    /\ ~map_write_held(n)
    /\ LET sr == search[n]
           p == sr.cpids[sr.i]
           rest == SubSeq(sr.cpids, 1, sr.i - 1) \o SubSeq(sr.cpids, sr.i + 1, Len(sr.cpids))
       IN search' = [search EXCEPT ![n] =
              IF contains_key(n, p)
              THEN [sr EXCEPT !.tasks = @ \cup {[part |-> p, simba |-> simba_map[n][p].simba]},
                              !.i = sr.i + 1,
                              !.pc = IF sr.i = Len(sr.cpids) THEN "recv" ELSE "dispatch"]
              ELSE [sr EXCEPT !.cpids = rest,
                              !.pc = IF sr.i > Len(rest) THEN "recv" ELSE "dispatch"]]
    /\ UNCHANGED <<simba_map, lock, next_sid, simbas, rafts, ld, off, lc, resp,
                   master_version, router, heartbeat, raft_vars, eng_vars>>
SearchDispatch(n) ==
    /\ search[n].pc = "dispatch"
    /\ ~map_write_held(n)
    /\ LET sr == search[n]
           p == sr.cpids[sr.i]
       IN search' = [search EXCEPT ![n] =
              IF contains_key(n, p)
              THEN [sr EXCEPT !.tasks = @ \cup {[part |-> p, simba |-> simba_map[n][p].simba]},
                              !.i = sr.i + 1,
                              !.pc = IF sr.i = Len(sr.cpids) THEN "recv" ELSE "dispatch"]
              ELSE [sr EXCEPT !.pc = "done", !.code = NotFoundCode,
                              !.chan = << >>, !.dist = NoSdr]]
    /\ UNCHANGED <<simba_map, lock, next_sid, simbas, rafts, ld, off, lc, resp,
                   master_version, router, heartbeat, raft_vars, eng_vars>>

\* a spawned task: tx.send(simba.search(sdreq)).await; the send fails once the
\* call has returned and dropped the receiver
SearchTask(n) ==
    /\ \E t \in search[n].tasks : \E r \in PartialResponses(t.part, search[n].size) :
         search' = [search EXCEPT ![n].tasks = @ \ {t},
                                  ![n].chan = IF search[n].pc = "done" THEN @
                                              ELSE Append(@, r)]
    /\ UNCHANGED <<simba_map, lock, next_sid, simbas, rafts, ld, off, lc, resp,
                   master_version, router, heartbeat, raft_vars, eng_vars>>

\* rx.recv(): the first response becomes dist, each later one is merged in
SearchRecv(n) ==
    /\ search[n].pc = "recv"
    /\ search[n].got < Len(search[n].cpids)
    /\ search[n].chan # << >>
    /\ search' = [search EXCEPT
          ![n].chan = Tail(@),
          ![n].got = @ + 1,
          ![n].dist = IF search[n].got = 0 THEN Head(search[n].chan)
                      ELSE merge_search_document_response(@, Head(search[n].chan))]
    /\ UNCHANGED <<simba_map, lock, next_sid, simbas, rafts, ld, off, lc, resp,
                   master_version, router, heartbeat, raft_vars, eng_vars>>

\* all len responses are in: sort_by, set_len, Ok(dist)
SearchReturn(n) ==
    /\ search[n].pc = "recv"
    /\ search[n].got = Len(search[n].cpids)
    /\ search' = [search EXCEPT
          ![n].pc = "done",
          ![n].code = "Success",
          ![n].dist = [@ EXCEPT !.hits = set_len(sort_by(@), search[n].size)]]
    /\ UNCHANGED <<simba_map, lock, next_sid, simbas, rafts, ld, off, lc, resp,
                   master_version, router, heartbeat, raft_vars, eng_vars>>

\* ----------------------------------------------------------- router search
\* a sort string is a sequence of fragments: the separators ':' and '|', and
\* words without a separator in them, no two words side by side
Words == {"name", "asc", "desc", "Desc"}
Seps == {":", "|"}
MaxSort == 7

RECURSIVE SortStrings(_)
SortStrings(n) ==
    IF n = 0 THEN {<< >>}
    ELSE LET S == SortStrings(n - 1)
         IN S \cup {Append(pr[1], pr[2]) :
                      pr \in {x \in S \X (Words \cup Seps) :
                                 /\ Len(x[1]) = n - 1
                                 /\ x[2] \in Words /\ n > 1 => x[1][n - 1] \in Seps}}

\* str::split(sep): the pieces between the separators, empty ones included
RECURSIVE split(_, _)
split(s, sep) ==
    IF \E j \in 1..Len(s) : s[j] = sep
    THEN LET j == CHOOSE k \in 1..Len(s) : s[k] = sep /\ \A m \in 1..(k - 1) : s[m] # sep
         IN <<SubSeq(s, 1, j - 1)>> \o split(SubSeq(s, j + 1, Len(s)), sep)
    ELSE <<s>>

\* str::to_lowercase
to_lowercase(str) == [j \in 1..Len(str) |-> IF str[j] = "Desc" THEN "desc" ELSE str[j]]

\* the closure mapped over the entries: s is one entry split at ':'
parse_order_any_len(s) ==
    IF Len(s) < 2 THEN [ok |-> FALSE, code |-> "ParamError", order |-> << >>]
    ELSE LET name == s[1]
             order == to_lowercase(s[2])
         IN IF order \in {<<"asc">>, <<"desc">>}
            THEN [ok |-> TRUE, code |-> "Success", order |-> <<name, order>>]
            ELSE [ok |-> FALSE, code |-> "ParamError", order |-> << >>]
parse_order(s) ==
    IF Len(s) # 2 THEN [ok |-> FALSE, code |-> "ParamError", order |-> << >>]
    ELSE LET name == s[1]
             order == to_lowercase(s[2])
         IN IF order \in {<<"asc">>, <<"desc">>}
            THEN [ok |-> TRUE, code |-> "Success", order |-> <<name, order>>]
            ELSE [ok |-> FALSE, code |-> "ParamError", order |-> << >>]

\* collect() into a Result<Vec<Order>>: the first Err, else every Order
collect(rs) ==
    IF \E j \in 1..Len(rs) : ~rs[j].ok
    THEN [ok |-> FALSE, code |-> "ParamError", orders |-> << >>]
    ELSE [ok |-> TRUE, code |-> "Success", orders |-> [j \in 1..Len(rs) |-> rs[j].order]]

\* `let sort = if let Some(sort) = query.sort { .. } else { Ok(vec![]) }?`
parse_sort(q) ==
    IF q.some
    THEN LET entries == split(q.s, "|")
         IN collect([j \in 1..Len(entries) |-> parse_order(split(entries[j], ":"))])
    ELSE [ok |-> TRUE, code |-> "Success", orders |-> << >>]

\* _search: the sort parameter, the vector query, then rs.search(..), whose
\* answer is the router service's
_search(q, vq) ==
    /\ router.pc = "idle"
    /\ LET sort == parse_sort(q)
       IN IF ~sort.ok
          THEN router' = [pc |-> "done", sort |-> q, vq |-> vq, code |-> sort.code,
                          dispatched |-> FALSE, orders |-> << >>]
          ELSE IF vq = "NoField"
          THEN router' = [pc |-> "done", sort |-> q, vq |-> vq, code |-> "ParamError",
                          dispatched |-> FALSE, orders |-> << >>]
          ELSE \E c \in {"Success", "InternalErr"} :
                 router' = [pc |-> "done", sort |-> q, vq |-> vq, code |-> c,
                            dispatched |-> TRUE, orders |-> sort.orders]
    /\ UNCHANGED <<simba_map, lock, next_sid, simbas, rafts, ld, off, lc, resp,
                   master_version, search, heartbeat, raft_vars, eng_vars>>

\* ---------------------------------------------------------- specifications
Create_a == [write_type |-> "Create", doc |-> [id |-> "a", source |-> "f"]]
Delete_a == [write_type |-> "Delete", doc |-> [id |-> "a", source |-> "f"]]
Put_a == [write_type |-> "Put", doc |-> [id |-> "a", source |-> "f"]]
Put_a_null == [write_type |-> "Put", doc |-> [id |-> "a", source |-> "null"]]
Update_a == [write_type |-> "Update", doc |-> [id |-> "a", source |-> "f"]]
Upsert_a == [write_type |-> "Upsert", doc |-> [id |-> "a", source |-> "f"]]
\* one mutation of each write_type
WriteCmds == {Create_a, Put_a, Update_a, Upsert_a, Delete_a}

\* committed logs a node finds in its Raft store when it starts
StoredLogs ==
    {l \in {<<LeaderChangeEntry(2), CommitEntry(Create_a), CommitEntry(Create_a)>>,
            <<CommitEntry(Put_a), LeaderChangeEntry(2), CommitEntry(Delete_a)>>,
            <<CommitEntry(Put_a), CommitEntry(Put_a), CommitEntry(Delete_a),
              CommitEntry(Put_a)>>} : Len(l) <= MaxLog}

\* a node starts with a stored log of partition 1 of which its key-value
\* store holds a prefix; nothing of the index was committed
InitLoad ==
    \E l \in StoredLogs, k \in 0..MaxLog, mv \in Versions : k <= Len(l) /\ Boot(l, k, mv)

\* a freshly started node: empty Raft store, empty key-value store
InitFresh == Boot(<< >>, 0, 0)

\* node 1 serving partition 1 under leader changes and writes; node 2 is the
\* other replica Raft may elect
NextRole ==
    \/ \E v \in {0, 1} : init_partition(1, 1, 1, v)
    \/ InitCheck(1)
    \/ InitGetCollection(1)
    \/ InitCheckVersion(1)
    \/ InitNewSimba(1)
    \/ InitCreateRaft(1)
    \/ InitIter(1)
    \/ InitReplay(1)
    \/ InitInsert(1)
    \/ LcRead(1, 1)
    \/ LcSwap(1)
    \/ LcSnapshot(1)
    \/ LcSend(1)
    \/ \E m \in Nodes : Elect(1, m)
    \/ \E r \in Engines : RaftApply(r)
    \/ \E c \in {Create_a, Delete_a} : write(1, 1, c)

SpecRole == InitFresh /\ [][NextRole]_vars

\* node 1 loading and offloading partitions
NextOffload ==
    \/ \E v \in {0, 1} : init_partition(1, 1, 1, v)
    \/ InitCheck(1)
    \/ InitGetCollection(1)
    \/ InitCheckVersion(1)
    \/ InitNewSimba(1)
    \/ InitCreateRaft(1)
    \/ InitIter(1)
    \/ InitReplay(1)
    \/ InitInsert(1)
    \/ \E p \in Parts : OffRemove(1, p)
    \/ OffStop(1)
    \/ OffRelease(1)

SpecOffload == InitFresh /\ [][NextOffload]_vars

\* node 1 loads partition 1, is told of elections by its Raft group and is
\* told to offload the partition at any moment, and may load it again
NextRelease ==
    \/ init_partition(1, 1, 1, 0)
    \/ InitCheck(1)
    \/ InitGetCollection(1)
    \/ InitNewSimba(1)
    \/ InitCreateRaft(1)
    \/ InitIter(1)
    \/ InitReplay(1)
    \/ InitInsert(1)
    \/ \E m \in Nodes : Elect(1, m)
    \/ LcRead(1, 1)
    \/ LcSwap(1)
    \/ LcSnapshot(1)
    \/ LcSend(1)
    \/ OffRemove(1, 1)
    \/ OffStop(1)
    \/ OffRelease(1)

SpecRelease == InitFresh /\ [][NextRelease]_vars

\* concurrent load requests for partition 1 on node 1, with reads and writes
NextLoad ==
    \/ \E t \in Loaders, v \in {0, 1} : init_partition(t, 1, 1, v)
    \/ \E t \in Loaders : InitCheck(t)
    \/ \E t \in Loaders : InitGetCollection(t)
    \/ \E t \in Loaders : InitCheckVersion(t)
    \/ \E t \in Loaders : InitNewSimba(t)
    \/ \E t \in Loaders : InitCreateRaft(t)
    \/ \E t \in Loaders : InitIter(t)
    \/ \E t \in Loaders : InitReplay(t)
    \/ \E t \in Loaders : InitInsert(t)
    \/ write(1, 1, Create_a)
    \/ \E k \in Keys : get(1, 1, k)

SpecLoad == InitLoad /\ [][NextLoad]_vars

\* node 1 loads partition 1 once, is elected its leader and serves writes of
\* every write_type
NextWrite ==
    \/ ld[1].pc = "idle" /\ init_partition(1, 1, 1, 0)
    \/ InitCheck(1)
    \/ InitGetCollection(1)
    \/ InitNewSimba(1)
    \/ InitCreateRaft(1)
    \/ InitIter(1)
    \/ InitReplay(1)
    \/ InitInsert(1)
    \/ LcRead(1, 1)
    \/ LcSwap(1)
    \/ LcSnapshot(1)
    \/ LcSend(1)
    \/ Elect(1, 1)
    \/ \E r \in Engines : RaftApply(r)
    \/ \E c \in WriteCmds : write(1, 1, c)

SpecWrite == InitFresh /\ [][NextWrite]_vars

\* node 1 starts with a stored log of partition 1 or none, its store holding
\* a prefix; it loads the partition, replays the rest and then applies what
\* the group commits: mutations that are refused or written according to the
\* key's state, and elections of node 2; it is told to offload once it has
\* applied everything, and loads again
ApplyCmds == {Create_a, Update_a, Delete_a}

InitApply ==
    \E l \in StoredLogs \cup {<< >>}, k \in 0..MaxLog : k <= Len(l) /\ Boot(l, k, 0)

NextApply ==
    \/ init_partition(1, 1, 1, 0)
    \/ InitCheck(1)
    \/ InitGetCollection(1)
    \/ InitNewSimba(1)
    \/ InitCreateRaft(1)
    \/ InitIter(1)
    \/ InitReplay(1)
    \/ InitInsert(1)
    \/ contains_key(1, 1) /\ Elect(1, 2)
    \/ \E c \in ApplyCmds : contains_key(1, 1) /\ Propose(1, c)
    \/ \E r \in Engines : RaftApply(r)
    \/ (\A r \in OpenRafts(1, 1) : rafts[r].applied = Len(log[1])) /\ OffRemove(1, 1)
    \/ OffStop(1)
    \/ OffRelease(1)

SpecApply == InitApply /\ [][NextApply]_vars

\* the router answers one search request: any sort string of up to MaxSort
\* fragments or none, with or without a vector query that names its field
SortParams == {NoSort} \cup {[some |-> TRUE, s |-> x] : x \in SortStrings(MaxSort)}

NextSort ==
    router.pc = "idle" /\ \E q \in SortParams, vq \in {"None", "Field", "NoField"} : _search(q, vq)

SpecSort == InitFresh /\ [][NextSort]_vars

\* node 1 loads partition 1 from a stored log while the group, whose member
\* it is from create_raft on, goes on committing: the replay loop and the
\* state machine's apply run side by side on the one engine
NextOverlap ==
    \/ ld[1].pc = "idle" /\ init_partition(1, 1, 1, 0)
    \/ InitCheck(1)
    \/ InitGetCollection(1)
    \/ InitNewSimba(1)
    \/ InitCreateRaft(1)
    \/ InitIter(1)
    \/ InitReplay(1)
    \/ InitInsert(1)
    \/ \E c \in {Put_a, Delete_a} : OpenRafts(1, 1) # {} /\ Propose(1, c)
    \/ \E r \in Engines : RaftApply(r)

SpecOverlap == InitApply /\ [][NextOverlap]_vars

\* node 1 loads partitions 1 and 2, one load RPC each, while partition 1's
\* group elects node 1 and the leader change takes its heartbeat
NextHeartbeat ==
    \/ \E t \in Loaders : ld[t].pc = "idle" /\ init_partition(t, 1, t, 0)
    \/ \E t \in Loaders : InitCheck(t)
    \/ \E t \in Loaders : InitGetCollection(t)
    \/ \E t \in Loaders : InitNewSimba(t)
    \/ \E t \in Loaders : InitCreateRaft(t)
    \/ \E t \in Loaders : InitIter(t)
    \/ \E t \in Loaders : InitReplay(t)
    \/ \E t \in Loaders : InitInsert(t)
    \/ \E m \in Nodes : Elect(1, m)
    \/ LcRead(1, 1)
    \/ LcSwap(1)
    \/ LcSnapshot(1)
    \/ LcSend(1)

SpecHeartbeat == InitFresh /\ [][NextHeartbeat]_vars

\* node 1 loads partition 1 and applies the Puts its group commits while the
\* engine is flushed up to MaxIdleFlush times, before, between and after the
\* events the index job handles
MaxIdleFlush == 12

NextFlush ==
    \/ ld[1].pc = "idle" /\ init_partition(1, 1, 1, 0)
    \/ InitCheck(1)
    \/ InitGetCollection(1)
    \/ InitNewSimba(1)
    \/ InitCreateRaft(1)
    \/ InitIter(1)
    \/ InitReplay(1)
    \/ InitInsert(1)
    \/ contains_key(1, 1) /\ Propose(1, Put_a)
    \/ \E r \in Engines : RaftApply(r)
    \/ \E e \in Engines : WorkerHandle(e)
    \/ \E e \in Engines : WorkerStore(e)
    \/ \E e \in Engines : FlushUpTo(e, MaxIdleFlush)

SpecFlush == InitFresh /\ [][NextFlush]_vars

\* node 1 loads partition 1 and applies Puts of well-typed and mistyped
\* sources and Deletes while the index job handles the events
Put_a_mistyped == [write_type |-> "Put", doc |-> [id |-> "a", source |-> "mistyped"]]
WorkerCmds == {Put_a, Put_a_mistyped, Delete_a}

NextWorker ==
    \/ ld[1].pc = "idle" /\ init_partition(1, 1, 1, 0)
    \/ InitCheck(1)
    \/ InitGetCollection(1)
    \/ InitNewSimba(1)
    \/ InitCreateRaft(1)
    \/ InitIter(1)
    \/ InitReplay(1)
    \/ InitInsert(1)
    \/ \E c \in WorkerCmds : contains_key(1, 1) /\ Propose(1, c)
    \/ \E r \in Engines : RaftApply(r)
    \/ \E e \in Engines : WorkerHandle(e)
    \/ \E e \in Engines : WorkerStore(e)

SpecWorker == InitFresh /\ [][NextWorker]_vars

\* node 1 loads partition 1, applies writes of well-typed documents and is
\* told to offload the partition at any moment; the index job is a thread of
\* its own, blocked in recv() only while the channel is empty
NextStop ==
    \/ ld[1].pc = "idle" /\ init_partition(1, 1, 1, 0)
    \/ InitCheck(1)
    \/ InitGetCollection(1)
    \/ InitNewSimba(1)
    \/ InitCreateRaft(1)
    \/ InitIter(1)
    \/ InitReplay(1)
    \/ InitInsert(1)
    \/ \E c \in {Put_a, Delete_a} :
          contains_key(1, 1) /\ off[1].pc = "idle" /\ Propose(1, c)
    \/ \E r \in Engines : RaftApply(r)
    \/ \E e \in Engines : WorkerHandle(e)
    \/ \E e \in Engines : WorkerStore(e)
    \/ off[1].pc = "idle" /\ OffRemove(1, 1)
    \/ OffStop(1)
    \/ OffRelease(1)

SpecStop ==
    /\ InitFresh /\ [][NextStop]_vars
    /\ \A e \in Engines : WF_vars(WorkerHandle(e)) /\ WF_vars(WorkerStore(e))

\* the index is idle: every event sent has been handled
Quiescent(e) == evq[e] = << >> /\ wpc[e] = "recv"

\* node 1 loads the empty partition 1 and applies a committed sequence as it
\* is committed; node 2 loads the partition afterwards and replays the
\* sequence from its empty store
NextReplay ==
    \/ ld[1].pc = "idle" /\ init_partition(1, 1, 1, 0)
    \/ Len(log[1]) > 0 /\ init_partition(2, 2, 1, 0)
    \/ \E t \in Loaders : InitCheck(t)
    \/ \E t \in Loaders : InitGetCollection(t)
    \/ \E t \in Loaders : InitNewSimba(t)
    \/ \E t \in Loaders : InitCreateRaft(t)
    \/ \E t \in Loaders : InitIter(t)
    \/ \E t \in Loaders : InitReplay(t)
    \/ \E t \in Loaders : InitInsert(t)
    \/ \E c \in {Put_a, Delete_a} :
          contains_key(1, 1) /\ ld[2].pc = "idle" /\ Propose(1, c)
    \/ \E r \in Engines : RaftApply(r)
    \/ \E e \in Engines : WorkerHandle(e)
    \/ \E e \in Engines : WorkerStore(e)

SpecReplay == InitFresh /\ [][NextReplay]_vars

\* node 1 serves partition 1 as a follower, is told to offload it once it has
\* applied every committed entry, and loads it again; nothing is written
\* after the offload request
NextReload ==
    \/ init_partition(1, 1, 1, 0)
    \/ InitCheck(1)
    \/ InitGetCollection(1)
    \/ InitNewSimba(1)
    \/ InitCreateRaft(1)
    \/ InitIter(1)
    \/ InitReplay(1)
    \/ InitInsert(1)
    \/ contains_key(1, 1) /\ off[1].pc = "idle" /\ Propose(1, Put_a)
    \/ \E r \in Engines : RaftApply(r)
    \/ \E e \in Engines : WorkerHandle(e)
    \/ \E e \in Engines : WorkerStore(e)
    \/ \E e \in Engines : Flush(e)
    \/ (\A r \in OpenRafts(1, 1) : rafts[r].applied = Len(log[1])) /\ OffRemove(1, 1)
    \/ OffStop(1)
    \/ OffRelease(1)

SpecReload == InitFresh /\ [][NextReload]_vars

\* both replica nodes of partition 1 load it and follow Raft's elections
NextCluster ==
    \/ \E t \in Loaders : ld[t].pc = "idle" /\ init_partition(t, t, 1, 0)
    \/ \E t \in Loaders : InitCheck(t)
    \/ \E t \in Loaders : InitGetCollection(t)
    \/ \E t \in Loaders : InitNewSimba(t)
    \/ \E t \in Loaders : InitCreateRaft(t)
    \/ \E t \in Loaders : InitIter(t)
    \/ \E t \in Loaders : InitReplay(t)
    \/ \E t \in Loaders : InitInsert(t)
    \/ \E m \in Nodes : Elect(1, m)
    \/ \E n \in Nodes : LcRead(n, 1)
    \/ \E n \in Nodes : LcSwap(n)
    \/ \E n \in Nodes : LcSnapshot(n)
    \/ \E n \in Nodes : LcSend(n)

SpecCluster == InitFresh /\ [][NextCluster]_vars

\* mutations the leader of partition 1 commits: writes of a document with
\* and without a value for the indexed field, and deletes
IndexCmds == {Put_a, Put_a_null, Delete_a}

\* node 1 loads partition 1 and applies what its group commits; the index
\* job and the periodic flush run beside the apply path
NextIndex ==
    \/ ld[1].pc = "idle" /\ init_partition(1, 1, 1, 0)
    \/ InitCheck(1)
    \/ InitGetCollection(1)
    \/ InitNewSimba(1)
    \/ InitCreateRaft(1)
    \/ InitIter(1)
    \/ InitReplay(1)
    \/ InitInsert(1)
    \/ \E c \in IndexCmds : contains_key(1, 1) /\ Propose(1, c)
    \/ \E r \in Engines : RaftApply(r)
    \/ \E e \in Engines : WorkerHandle(e)
    \/ \E e \in Engines : WorkerStore(e)
    \/ \E e \in Engines : Flush(e)

SpecIndex == InitFresh /\ [][NextIndex]_vars

\* requests a client may send to node 1
SearchCpids == {<<1>>, <<1, 2>>, <<2, 1>>}

\* node 1 loads partitions 1 and 2, then answers searches while partitions
\* are offloaded
NextSearch ==
    \/ \E t \in Loaders : ld[t].pc = "idle" /\ search[1].pc = "idle"
                            /\ init_partition(t, 1, t, 0)
    \/ \E t \in Loaders : InitCheck(t)
    \/ \E t \in Loaders : InitGetCollection(t)
    \/ \E t \in Loaders : InitNewSimba(t)
    \/ \E t \in Loaders : InitCreateRaft(t)
    \/ \E t \in Loaders : InitIter(t)
    \/ \E t \in Loaders : InitReplay(t)
    \/ \E t \in Loaders : InitInsert(t)
    \/ off[1].pc = "idle" /\ OffRemove(1, 2)
    \/ OffStop(1)
    \/ OffRelease(1)
    \/ \E cpids \in SearchCpids, size \in 0..MaxSize :
          (\A t \in Loaders : ld[t].pc \in {"idle", "done"}) /\ search_call(1, cpids, size)
    \/ SearchDispatch(1)
    \/ SearchTask(1)
    \/ SearchRecv(1)
    \/ SearchReturn(1)

SpecSearch == InitFresh /\ [][NextSearch]_vars

\* ------------------------------------------------------------------ claims
\* an init_partition call between its already-present check and its return
InFlight(t) ==
    ld[t].pc \in {"get_collection", "check_version", "new_simba", "create_raft",
                  "iter", "replay", "insert"}

\* C2: concurrent init_partition calls for one (collection_id, partition_id)
\* on one node are serialized: a second caller never passes the
\* already-present check while a first is between that check and its insert.
C2_LoadSerialized ==
    \A t1 \in Loaders, t2 \in Loaders :
        (t1 # t2 /\ InFlight(t1) /\ InFlight(t2))
            => ~(ld[t1].node = ld[t2].node /\ ld[t1].part = ld[t2].part)

\* C3: init_partition on a partition already in the map returns Ok at the
\* check and changes nothing: no schema fetched, no version checked, no
\* engine opened, no Raft group created, the map entry as it was.
C3_InitIdempotent ==
    [][\A t \in Loaders :
         (/\ ld[t].pc = "check"
          /\ simba_map[ld[t].node][ld[t].part] # NoStore
          /\ ld'[t] # ld[t])
         => /\ ld'[t] = [ld[t] EXCEPT !.pc = "done", !.res = "Success"]
            /\ ld'[t].collection = FALSE /\ ld'[t].simba = 0 /\ ld'[t].raft = 0
            /\ UNCHANGED <<simba_map, next_sid, simbas, rafts, master_version, search, router,
                           raft_vars, eng_vars>>]_vars

C3_Witness ==
    \E t \in Loaders :
        /\ ld[t].pc = "done" /\ ld[t].res = "Success" /\ ld[t].simba = 0
        /\ simba_map[1][1].kind = "Member"

\* C4: with version > 0 init_partition fails VersionErr exactly when the
\* master's stored version exceeds the requested one (the master having
\* answered), and then nothing was opened, created or inserted; with
\* version = 0 the master's version is not asked for.
C4_VersionFence ==
    [][\A t \in Loaders :
         /\ (ld[t].pc = "check_version" => ld[t].version > 0)
         /\ (ld[t].pc = "get_collection" /\ ld[t].version = 0
                => ld'[t].pc \in {"get_collection", "new_simba", "done"})
         /\ (ld'[t].res = "VersionErr" /\ ld[t].res # "VersionErr")
                => /\ ld[t].pc = "check_version"
                   /\ master_version[ld[t].part] > ld[t].version
                   /\ ld'[t].pc = "done" /\ ld'[t].simba = 0 /\ ld'[t].raft = 0
                   /\ UNCHANGED <<simba_map, next_sid, simbas, rafts, raft_vars,
                                  eng_vars>>
         /\ (ld[t].pc = "check_version" /\ ld'[t] # ld[t])
                => IF master_version[ld[t].part] > ld[t].version
                   THEN ld'[t].pc = "done" /\ ld'[t].res \in {"VersionErr", "InternalErr"}
                   ELSE ld'[t].res # "VersionErr"]_vars

C4_Witness ==
    \E t \in Loaders :
        /\ ld[t].pc = "done" /\ ld[t].res = "VersionErr"
        /\ master_version[ld[t].part] = ld[t].version + 1

\* C5: a partition enters the map only when its init_partition call has
\* replayed every committed entry above the stored raft_index; until then
\* write and get on it fail not-found and no request reaches its engine.
C5_ServedAfterReplay ==
    /\ \A n \in Nodes, p \in Parts :
          simba_map[n][p] # NoStore
              => /\ \A t \in Loaders : ld[t].simba = simba_map[n][p].simba
                                          => ld[t].pc = "done"
                 /\ db[n][p] = KVAfter(log[p], Len(log[p]))
    /\ \A n \in Nodes :
          /\ (resp[n].op # "None" /\ simba_map[n][resp[n].part] = NoStore)
                => resp[n].code = NotFoundCode /\ resp[n].simba = 0
          /\ \A t \in Loaders :
                InFlight(t) /\ ld[t].simba # 0 => resp[n].simba # ld[t].simba

C5_Witness ==
    /\ simba_map[1][1].kind = "Member"
    /\ db[1][1].raft_index = 3
    /\ resp[1].op = "get" /\ resp[1].code = "Success" /\ resp[1].simba # 0

\* C1: write on a partition whose map entry is Member fails
\* PartitionNotLeader without reaching the engine or Raft; a write reaches an
\* engine only through a Leader entry, and then that entry's engine.
C1_WriteNeedsLeader ==
    [][\A n \in Nodes :
         (resp'[n] # resp[n] /\ resp'[n].op = "write")
         => LET store == simba_map[n][resp'[n].part]
            IN /\ store.kind = "Member"
                    => /\ resp'[n].code = "PartitionNotLeader"
                       /\ resp'[n].simba = 0
                       /\ UNCHANGED <<log, rafts, db, evq>>
               /\ resp'[n].simba # 0
                    => store.kind = "Leader" /\ resp'[n].simba = store.simba
               /\ log' # log => store.kind = "Leader"]_vars

C1_Witness ==
    /\ resp[1].op = "write" /\ resp[1].code = "PartitionNotLeader"
    /\ simba_map[1][1].kind = "Member"

\* C8: offload_partition answers success whenever it returns; for a partition
\* absent from the map it returns success at once and leaves the map and
\* every engine as they were (no stop, no release).
C8_OffloadSuccess ==
    [][\A n \in Nodes :
         /\ (off'[n].pc = "done" => off'[n].res = "Success")
         /\ (off[n].pc \in {"idle", "done"} /\ off'[n] # off[n]
               /\ simba_map[n][off'[n].part] = NoStore)
            => /\ off'[n].pc = "done"
               /\ UNCHANGED <<simba_map, simbas, rafts, raft_vars, eng_vars>>]_vars

C8_Witness ==
    /\ off[1].pc = "done" /\ off[1].part = 2 /\ off[1].store = NoStore
    /\ off[1].res = "Success"
    /\ simba_map[1][1] # NoStore /\ simbas[simba_map[1][1].simba].state = "running"

C6_ReplayEquivalence ==
    \A e1, e2 \in Engines :
        (/\ simba_map[1][1].simba = e1 /\ simba_map[2][1].simba = e2
         /\ rafts[e1].applied = Len(log[1]) /\ rafts[e2].applied = Len(log[1])
         /\ Quiescent(e1) /\ Quiescent(e2))
        => /\ db[1][1] = db[2][1]
           /\ widx[e1] = widx[e2]

\* C7: after an offload and a load of the partition with no write in
\* between, the key-value store holds what every committed write left and the
\* index counts as many documents as the offloaded engine's index job had
\* indexed from the events apply had sent it.
C7_OffloadLoad ==
    \A e1, e2 \in Engines :
        (/\ simbas[e1] = [state |-> "released", node |-> 1, part |-> 1]
         /\ wpc[e1] = "stopped"
         /\ e2 > e1 /\ simba_map[1][1].simba = e2 /\ Quiescent(e2))
        => /\ db[1][1] = KVAfter(log[1], Len(log[1]))
           /\ Cardinality(widx[e2]) = Cardinality(widx[e1])

Pending(n, p) ==
    \/ ntf[n][p] # << >>
    \/ lc[n].pc \in {"swap"} /\ lc[n].part = p

C11_SearchNotFound ==
    [][\A n \in Nodes :
         /\ (/\ search[n].pc = "dispatch"
             /\ search'[n] # search[n] /\ search'[n].tasks = search[n].tasks
             /\ simba_map[n][search[n].cpids[search[n].i]] = NoStore)
            => /\ search'[n].pc = "done"
               /\ search'[n].code = NotFoundCode
               /\ search'[n].dist = NoSdr
         /\ (search[n].pc = "done" /\ search[n].code = NotFoundCode)
            => (search'[n].pc = "done" => search'[n].dist = NoSdr)]_vars

C11_Witness ==
    /\ search[1].pc = "done" /\ search[1].code = NotFoundCode
    /\ search[1].cpids = <<1, 2>> /\ search[1].i = 2
    /\ search[1].tasks = {} /\ contains_key(1, 1)

\* the hits of a response, as a set
Hits(sdr) == {sdr.hits[j] : j \in DOMAIN sdr.hits}
\* search's receive of one partial response, and its return
RecvStep(n) == search[n].pc = "recv" /\ search'[n].got = search[n].got + 1
ReturnStep(n) == search[n].pc = "recv" /\ search'[n].pc = "done"

\* C12: every partial response received adds exactly its hits to the merged
\* hits, none lost and none twice; the hits returned are in non-increasing
\* score order, are min(size, merged) many, are hits of the merge each taken
\* once, and no hit left out scores higher than a hit returned.
C12_MergedTopHits ==
    [][\A n \in Nodes :
         /\ RecvStep(n)
            => LET src == Head(search[n].chan)
                   old == IF search[n].got = 0 THEN NoSdr ELSE search[n].dist
               IN /\ Hits(search'[n].dist) = Hits(old) \cup Hits(src)
                  /\ Len(search'[n].dist.hits) = Len(old.hits) + Len(src.hits)
         /\ ReturnStep(n)
            => LET all == search[n].dist
                   out == search'[n].dist
                   k == Len(out.hits)
               IN /\ k = IF Len(all.hits) > search[n].size THEN search[n].size
                                                           ELSE Len(all.hits)
                  /\ \A j \in 1..(k - 1) : out.hits[j].score >= out.hits[j + 1].score
                  /\ Hits(out) \subseteq Hits(all)
                  /\ Cardinality(Hits(out)) = k
                  /\ \A h \in Hits(all) \ Hits(out) :
                        \A g \in Hits(out) : h.score <= g.score]_vars

C12_Witness ==
    /\ search[1].pc = "done" /\ search[1].code = "Success"
    /\ search[1].cpids = <<1, 2>> /\ search[1].size = 3
    /\ Len(search[1].dist.hits) = 3 /\ search[1].dist.total = 4
    /\ [j \in 1..3 |-> search[1].dist.hits[j].score] = <<9, 8, 7>>
    /\ [j \in 1..3 |-> search[1].dist.hits[j].part] = <<1, 2, 2>>

\* C13: the first partial response received gives the total, every later one
\* adds its total to it, in whatever order they arrive, and the sort and the
\* truncation at the return leave the total as it is.
C13_TotalIsSum ==
    [][\A n \in Nodes :
         /\ RecvStep(n)
            => search'[n].dist.total =
                 (IF search[n].got = 0 THEN 0 ELSE search[n].dist.total)
                 + Head(search[n].chan).total
         /\ ReturnStep(n) => search'[n].dist.total = search[n].dist.total]_vars

C13_Witness ==
    /\ search[1].pc = "done" /\ search[1].code = "Success"
    /\ search[1].cpids = <<2, 1>> /\ search[1].size = 2
    /\ search[1].dist.total = 6 /\ Len(search[1].dist.hits) = 2
    /\ search[1].dist.hits[1].part = 1

\* the index of engine e is idle and committed: every event handled, and the
\* index on disk is the writer's
Committed(e) ==
    /\ simbas[e].state = "running" /\ Quiescent(e)
    /\ cidx[simbas[e].node][simbas[e].part] = widx[e]

\* C14: once the index job has drained the channel and a commit has
\* happened, every iid in the index is the current iid of a key: no posting
\* of a deleted or overwritten iid is left.
C14_IndexRemoval ==
    \A e \in Engines :
        Committed(e)
        => LET kv == db[simbas[e].node][simbas[e].part]
           IN \A iid \in widx[e] : \E k \in Keys : kv.keys[k] = iid

\* C15: once the index job has drained the channel and a commit has
\* happened, the current iid of every key of a collection with indexed
\* fields is in the index, whatever source the document was written with.
C15_IndexPresence ==
    \A e \in Engines :
        (Committed(e) /\ check_index(simbas[e].part))
        => LET kv == db[simbas[e].node][simbas[e].part]
           IN \A k \in Keys : kv.keys[k] # 0 => kv.keys[k] \in widx[e]

\* a write of node n that got its mutation committed and applied
WriteApplied(n) ==
    /\ resp'[n].op = "write"
    /\ Len(log'[resp'[n].part]) = Len(log[resp'[n].part]) + 1
    /\ db'[n][resp'[n].part].raft_index = Len(log'[resp'[n].part])

\* C16: the code a committed write returns, and what it did to the key, are
\* decided by the write_type and by whether the key had a prior iid: Create
\* writes iff there is none and else answers AlreadyExists, Update writes iff
\* there is one and else answers NotFound, Put and Upsert always write,
\* Delete always succeeds and leaves the key without an iid.
C16_WriteTypeTable ==
    [][\A n \in Nodes :
         WriteApplied(n)
         => LET p == resp'[n].part
                cmd == log'[p][Len(log'[p])].commond
                wt == cmd.write_type
                prior == db[n][p].keys[cmd.doc.id]
                code == resp'[n].code
                wrote == /\ db'[n][p].keys[cmd.doc.id] = db[n][p].max_iid + 1
                         /\ db'[n][p].docs[db[n][p].max_iid + 1] = cmd.doc.source
            IN /\ wt = "Create" => IF prior = 0 THEN code = "Success" /\ wrote
                                               ELSE code = "AlreadyExists" /\ ~wrote
               /\ wt = "Update" => IF prior # 0 THEN code = "Success" /\ wrote
                                               ELSE code = "NotFound" /\ ~wrote
               /\ wt \in {"Put", "Upsert"} => code = "Success" /\ wrote
               /\ wt = "Delete" => /\ code = "Success"
                                   /\ db'[n][p].keys[cmd.doc.id] = 0
                                   /\ (prior = 0 => db'[n][p].docs = db[n][p].docs)]_vars

C16_Witness ==
    /\ resp[1].op = "write" /\ resp[1].code = "AlreadyExists"
    /\ log[1][Len(log[1])].commond = Create_a
    /\ db[1][1].keys["a"] = 1 /\ db[1][1].raft_index = Len(log[1])

\* this step hands entry i of partition p's log, a Commit entry, to do_write
\* of a running engine on node n: as the state machine's apply of an open
\* Raft group, or as a turn of the replay loop of a load
LiveApply(n, p, i) ==
    \E r \in Engines :
       /\ rafts[r].state = "open" /\ rafts[r].node = n /\ rafts[r].part = p
       /\ rafts[r].applied = i - 1 /\ rafts'[r].applied = i
       /\ simbas[rafts[r].sm].state = "running"
ReplayApply(n, p, i) ==
    \E t \in Loaders :
       /\ ld[t].pc = "replay" /\ ld[t].node = n /\ ld[t].part = p
       /\ ld[t].pos = i /\ ld'[t].pos = i + 1
       /\ simbas[ld[t].simba].state = "running"
Applied(n, p, i) ==
    /\ i \in 1..Len(log'[p])
    /\ log'[p][i].type = "Commit"
    /\ LiveApply(n, p, i) \/ ReplayApply(n, p, i)

\* the mutation of entry i finds the key in a state its write_type rejects,
\* or is a Delete of a key that has no iid
Refused(n, p, i) ==
    LET cmd == log'[p][i].commond
        prior == db[n][p].keys[cmd.doc.id]
    IN \/ cmd.write_type = "Create" /\ prior # 0
       \/ cmd.write_type = "Update" /\ prior = 0
       \/ cmd.write_type = "Delete" /\ prior = 0

\* C17: applying a Create on an existing key, an Update on a missing key or a
\* Delete on a missing key changes nothing but raft_index, which becomes the
\* entry's index: documents, keys and max_iid stay, no event is sent to the
\* index job and the index is not touched.
C17_RefusedFrame ==
    [][\A n \in Nodes, p \in Parts, i \in 1..(MaxLog + 1) :
         Applied(n, p, i) /\ Refused(n, p, i)
         => /\ db' = [db EXCEPT ![n][p].raft_index = i]
            /\ evq' = evq /\ widx' = widx /\ cidx' = cidx]_vars

C17_Witness ==
    /\ log[1] = <<CommitEntry(Delete_a), CommitEntry(Update_a), CommitEntry(Create_a)>>
    /\ db[1][1].raft_index = 2 /\ db[1][1].max_iid = 0
    /\ \A e \in Engines : evq[e] = << >>

Writes(n, p, i) ==
    LET cmd == log'[p][i].commond
        prior == db[n][p].keys[cmd.doc.id]
    IN \/ cmd.write_type \in {"Put", "Upsert"}
       \/ cmd.write_type = "Create" /\ prior = 0
       \/ cmd.write_type = "Update" /\ prior # 0

Entries == [j \in 1..Len(split(router.sort.s, "|")) |->
              split(split(router.sort.s, "|")[j], ":")]

\* C20 as stated: the request is dispatched only if every entry is exactly
\* name:asc or name:desc, and any other entry makes it fail with ParamError
\* before anything is dispatched.
C20_SortExactly ==
    router.pc = "done" /\ router.sort.some
    => IF \A j \in 1..Len(Entries) :
             Len(Entries[j]) = 2 /\ Entries[j][2] \in {<<"asc">>, <<"desc">>}
       THEN router.code = "ParamError" => router.vq = "NoField"
       ELSE router.code = "ParamError" /\ ~router.dispatched

\* C20 amended: an entry is accepted iff it has exactly two ':'-separated
\* parts and the second is asc or desc in any letter case; the order is
\* handed on in lower case, the name as it is; any other entry makes the
\* request fail with ParamError before anything is dispatched.
C20_SortAnyCase ==
    router.pc = "done" /\ router.sort.some
    => IF \A j \in 1..Len(Entries) :
             Len(Entries[j]) = 2 /\ Entries[j][2] \in {<<"asc">>, <<"desc">>, <<"Desc">>}
       THEN /\ router.code = "ParamError" => router.vq = "NoField"
            /\ router.dispatched
                => /\ Len(router.orders) = Len(Entries)
                   /\ \A j \in 1..Len(Entries) :
                        /\ router.orders[j][1] = Entries[j][1]
                        /\ router.orders[j][2] \in {<<"asc">>, <<"desc">>}
       ELSE router.code = "ParamError" /\ ~router.dispatched

C20_Witness ==
    /\ router.pc = "done" /\ router.code = "ParamError" /\ ~router.dispatched
    /\ router.vq = "Field"
    /\ router.sort.s = <<"name", ":", "asc", "|", "name", ":", "name">>

\* the engines that calls in flight on node n took from the registry and
\* have not finished using: the tasks a search spawned with a clone of the
\* partition's Arc<Simba>
EnginesInUse(n) == {t.simba : t \in search[n].tasks}

\* C21: offload_partition releases the engine only after every operation in
\* flight that obtained the partition from the registry before the removal
\* has finished using the engine: no engine in use is released.
C21_ReleaseAfterUsers ==
    \A n \in Nodes : \A e \in EnginesInUse(n) : simbas[e].state # "released"

\* C22: on a load, with the Raft group created before the replay delivering
\* live commits to the same engine, every Commit entry above the raft_index
\* the engine was opened with reaches do_write once and in index order: the
\* entry applied is above raft_index and no Commit entry between the two is
\* left out; LeaderChange entries are passed over without effect.
C22_ReplayOnceInOrder ==
    [][\A n \in Nodes, p \in Parts :
         /\ \A i \in 1..(MaxLog + 1) :
              Applied(n, p, i)
              => /\ db[n][p].raft_index < i
                 /\ ~\E j \in (db[n][p].raft_index + 1)..(i - 1) : log'[p][j].type = "Commit"
         /\ (\A i \in 1..(MaxLog + 1) : ~Applied(n, p, i)) => db'[n][p] = db[n][p]]_vars

\* C23: the insert that ends a successful init_partition puts the store in
\* the map as Member with the requested version plus one; a store becomes
\* Leader only by an apply_leader_change naming this node, and until then a
\* write to the partition is answered PartitionNotLeader and proposes nothing.
C23_LoadedAsMember ==
    [][/\ \A t \in Loaders :
            (ld[t].pc = "insert" /\ ld'[t].pc = "done")
            => LET st == simba_map'[ld[t].node][ld[t].part]
               IN /\ ld'[t].res = "Success"
                  /\ st.kind = "Member"
                  /\ st.version = ld[t].version + 1
                  /\ st.simba = ld[t].simba /\ st.raft = ld[t].raft
       /\ \A n \in Nodes, p \in Parts :
            /\ (simba_map'[n][p].kind = "Leader" /\ simba_map[n][p].kind # "Leader")
               => /\ simba_map[n][p].kind = "Member"
                  /\ lc[n].pc = "swap" /\ lc[n].part = p /\ lc[n].leader_id = n
            /\ (simba_map[n][p].kind = "Member" /\ resp'[n].op = "write"
                   /\ resp'[n].part = p /\ resp'[n] # resp[n])
               => resp'[n].code = "PartitionNotLeader" /\ log' = log /\ db' = db
       /\ \A p \in Parts :
            (Len(log'[p]) > Len(log[p]) /\ log'[p][Len(log'[p])].type = "Commit")
            => \E n \in Nodes : simba_map[n][p].kind = "Leader"]_vars

C23_Witness ==
    /\ ld[1].pc = "done" /\ ld[1].res = "Success" /\ ld[1].version = 1
    /\ simba_map[1][1].kind = "Member" /\ simba_map[1][1].version = 2
    /\ lc[1].pc = "idle"
    /\ resp[1].op = "write" /\ resp[1].code = "PartitionNotLeader"

\* C24: an apply_leader_change that has swapped the store goes on to
\* take_heartbeat before it returns: the snapshot holds exactly the
\* partitions whose store is Leader then, the partition just promoted among
\* them and the one just demoted not, and that snapshot is what put_pserver
\* sends; the master's record changes by such a send only.
C24_HeartbeatAfterSwap ==
    [][\A n \in Nodes :
         /\ (lc[n].pc = "swap" /\ lc'[n].pc = "done") => simba_map' = simba_map
         /\ (lc[n].pc = "swap" /\ simba_map' # simba_map) => lc'[n].pc = "snapshot"
         /\ (lc[n].pc = "snapshot" /\ lc'[n] # lc[n])
            => /\ lc'[n].pc = "send"
               /\ lc'[n].wps = {p \in Parts : simba_map[n][p].kind = "Leader"}
               /\ \A p \in lc'[n].wps : simba_map[n][p].kind # "Member"
               /\ lc[n].part \in lc'[n].wps <=> lc[n].leader_id = n
         /\ (lc[n].pc = "send" /\ lc'[n] # lc[n])
            => /\ lc'[n].pc = "done"
               /\ lc'[n].res = "Success" => heartbeat'[n] = lc[n].wps
         /\ heartbeat'[n] # heartbeat[n] => lc[n].pc = "send" /\ heartbeat'[n] = lc[n].wps]_vars

C24_Witness ==
    /\ lc[1].pc = "done" /\ lc[1].res = "Success"
    /\ term[1] = 2 /\ raft_leader[1] = 1 /\ ntf[1][1] = << >>
    /\ is_leader_type(simba_map[1][1]) /\ heartbeat[1] = {1}

\* a take_heartbeat of node n between its snapshot and the end of its send
Heartbeating(n) == lc[n].pc = "send"

\* C25: the registry lock serializes take_heartbeat against init_partition:
\* while a take_heartbeat is between its snapshot and its send, no
\* init_partition on the node is between its already-present check and its
\* insert.
C25_HeartbeatExclusive ==
    \A n \in Nodes : Heartbeating(n) => ~\E t \in Loaders : ld[t].node = n /\ InFlight(t)

\* this step is a flush() of engine e
FlushStep(e) ==
    /\ flushes' = flushes + 1
    /\ simbas[e].state = "running"

\* C26: every flush adds one to the activity counter, and it commits only if
\* fewer than 10 flushes have happened since the index job last handled an
\* event and set the counter to zero: the flushes that find the counter at 10
\* or above return without committing.
C26_FlushLimit ==
    [][\A e \in Engines :
         FlushStep(e)
         => /\ status'[e] = status[e] + 1
            /\ flushed'[e] = "commit" <=> status[e] < 10]_vars

\* this step is index_job receiving the head of engine e's channel
Received(e) ==
    /\ wpc[e] = "recv" /\ evq[e] # << >>
    /\ wpc'[e] # "recv"

\* C27: whatever source apply stored, an Update or Delete event that the index
\* job cannot handle is skipped: the job goes on to its status store and
\* receives again, it ends by a Stop event only, and every event apply
\* produces is put on the channel.
C27_WorkerSurvives ==
    [][\A e \in Engines :
         /\ (Received(e) /\ Head(evq[e]).type # "Stop") => wpc'[e] = "store"
         /\ (wpc'[e] # wpc[e] /\ wpc[e] \in {"recv", "store"})
            => \/ wpc'[e] \in {"recv", "store"}
               \/ wpc'[e] = "stopped" /\ Head(evq[e]).type = "Stop"]_vars

\* the index the job builds from the first k entries of log l of partition p
\* when it handles each event before the next entry is applied
RECURSIVE IndexAfter(_, _, _)
IndexAfter(p, l, k) ==
    IF k = 0 THEN {}
    ELSE IF l[k].type # "Commit" THEN IndexAfter(p, l, k - 1)
    ELSE LET r == do_write(KVAfter(l, k - 1), k, l[k].commond)
         IN IF r.ev.type = "None" THEN IndexAfter(p, l, k - 1)
            ELSE index_event(p, IndexAfter(p, l, k - 1), r.kv, r.ev)

\* engine e has applied every entry of its partition's log
AppliedAll(e) ==
    \E r \in Engines :
       /\ rafts[r].state = "open" /\ rafts[r].sm = e
       /\ rafts[r].applied = Len(log[rafts[r].part])

\* C28: the index job takes the events in the order apply sent them, and once
\* the channel is drained and the index committed the set of indexed iids
\* depends on the committed log only: it is the set the job builds when it
\* keeps up with apply, however the two threads were interleaved.
C28_IndexOfLog ==
    \A e \in Engines :
        (Committed(e) /\ AppliedAll(e))
        => widx[e] = IndexAfter(simbas[e].part, log[simbas[e].part],
                                Len(log[simbas[e].part]))

\* hit h1 may come before hit h2: by score descending, hits of equal score by
\* collection (partitions 1 and 2 are of collections 1 and 2); the iids of
\* two hits of one partition are not modelled and may come either way
Before(h1, h2) ==
    \/ h1.score > h2.score
    \/ h1.score = h2.score /\ h1.part <= h2.part

\* C29: the hits a search returns are in one order whatever the order the
\* partitions answered in: by score descending, hits of equal score by
\* collection, and the hits cut by size are the last of that order.
C29_TieOrder ==
    \A n \in Nodes :
        (search[n].pc = "done" /\ search[n].code = "Success")
        => \A j \in 1..(Len(search[n].dist.hits) - 1) :
              Before(search[n].dist.hits[j], search[n].dist.hits[j + 1])

\* a Stop event is on the channel of engine e
StopSent(e) == \E j \in 1..Len(evq[e]) : evq[e][j].type = "Stop"

Progress(n) == OffRelease(n) \/ LcSwap(n) \/ LcSnapshot(n) \/ LcSend(n)

\* C31: an offload_partition that waits for the references to the removed
\* Store is never stuck: it can leave its wait loop, or the
\* apply_leader_change that holds the reference can take its next step.
C31_OffloadReturns ==
    \A n \in Nodes : off[n].pc = "wait" => ENABLED Progress(n)

\* C32: a Store in the registry always has a running engine, and an absent
\* partition comes back only by the insert of an init_partition, with the
\* engine that call opened; an apply_leader_change that cloned the Store
\* before offload_partition removed it puts nothing back.
C32_NoStoppedStore ==
    /\ [](\A n \in Nodes, p \in Parts :
            contains_key(n, p) => simbas[simba_map[n][p].simba].state = "running")
    /\ [][\A n \in Nodes, p \in Parts :
            (~contains_key(n, p) /\ simba_map'[n][p] # NoStore)
            => \E t \in Loaders :
                 /\ ld[t].pc = "insert" /\ ld'[t].pc = "done"
                 /\ ld[t].node = n /\ ld[t].part = p
                 /\ simba_map'[n][p].simba = ld[t].simba
                 /\ \A m \in Nodes : off[m].store.simba # ld[t].simba]_vars

\* apply_leader_change holds the Store it read, offload_partition has removed
\* that Store and stopped its engine
C32_Witness ==
    /\ off[1].pc = "wait" /\ lc[1].pc = "swap"
    /\ lc[1].store.sid = off[1].store.sid
    /\ simbas[lc[1].store.simba].state = "stopped"
    /\ ~contains_key(1, 1)

\* C33: on a node that hosts a partition and has handled every leader change
\* notification of it, the Store is Leader exactly if the last election the
\* node was told of named this node, whenever the notifications arrived.
C33_RoleAgreement ==
    \A n \in Nodes, p \in Parts :
        (contains_key(n, p) /\ term[p] > 0 /\ ~Pending(n, p))
        => (is_leader_type(simba_map[n][p]) <=> raft_leader[p] = n)

====
